---- MODULE Spec2Model ----
(***************************************************************************)
(* Model of embedding_pdf_documents/embedding_ray.py: a Ray Data pipeline  *)
(* that reads PDF files, extracts page texts (convert_to_text), splits     *)
(* them into chunks (split_text), embeds the chunks in batches on a pool   *)
(* of Embed actors (map_batches), collects the (text, vector) rows in the  *)
(* driver (iter_rows) and builds and saves a FAISS index.                  *)
(*                                                                         *)
(* A document is a record [id, open, pages]: `open` is the outcome of      *)
(* PdfReader(pdf_bytes_io) and pages[p] is the outcome of                  *)
(* page.extract_text() on page p: BadPage when it raises binascii.Error,   *)
(* otherwise the page text, abstracted to the number of chunks that        *)
(* split_text cuts it into.  A chunk is a pair <<block, i>>: the i-th      *)
(* chunk of the block of rows that document `block` contributes.           *)
(***************************************************************************)
EXTENDS Integers, Sequences, FiniteSets, TLC

MaxDocs == 2      \* documents in the input directory
MaxPages == 2     \* pages of one document
MaxChunks == 2    \* chunks split_text cuts one page text into
MaxRows == 3      \* chunks of one run
MaxBatch == 2     \* batch_size of map_batches (100 in the script)
MaxPool == 2      \* min_size = max_size of the actor pool (20 in the script)

BadPage == -1

VARIABLES
    batch_size,           \* map_batches(batch_size=...)
    pool_size,            \* ActorPoolStrategy(min_size = max_size = ...)
    n_docs,               \* number of files read_directory yields
    next_doc,             \* index of the next document to extract
    chunks,               \* the chunks the splitter has produced, in order
    calls,                \* convert_to_text calls made (extractor runs)
    last,                 \* the last of them: [pdf, raised, ret]
    log,                  \* number of "parsing failed" lines printed
    skipped_docs,         \* unreadable documents skipped so far
    skipped_pages,        \* unparseable pages skipped so far
    stream,               \* chunks waiting to be batched
    workers,              \* the Embed actors of the pool
    inflight,             \* batches being embedded: [worker, batch]
    dispatched,           \* the batches handed to the pool, in order
    outbuf,               \* embedded rows not yet read by iter_rows
    text_and_embeddings,  \* the driver's list
    vector_store,         \* the index FAISS.from_embeddings returned
    faiss_index,          \* the index save_local wrote
    saves,                \* number of save_local calls completed
    error,                \* exception that ended the run, or "none"
    pc                    \* position of the driver script

vars == <<batch_size, pool_size, n_docs, next_doc, chunks, calls, last, log,
          skipped_docs, skipped_pages, stream, workers, inflight,
          dispatched, outbuf, text_and_embeddings, vector_store,
          faiss_index, saves, error, pc>>

Min(a, b) == IF a < b THEN a ELSE b

RECURSIVE Concat(_)
Concat(ss) == IF ss = <<>> THEN <<>> ELSE Head(ss) \o Concat(Tail(ss))

\* Sequences over S of length at most n.
SeqUpTo(S, n) == UNION {[1..k -> S] : k \in 0..n}

OpenOutcomes == {"ok", "PdfStreamError", "PdfReadError"}

PageOutcomes == {BadPage} \cup (0..MaxChunks)

\* The byte blobs a file of the directory can hold, by what pypdf makes of them.
Documents(d) ==
    {[id |-> d, open |-> "ok", pages |-> ps] : ps \in SeqUpTo(PageOutcomes, MaxPages)}
    \cup {[id |-> d, open |-> o, pages |-> <<>>] : o \in OpenOutcomes \ {"ok"}}

----------------------------------------------------------------------------
(* convert_to_text *)

\* The page loop leaving at the first page that fails.
RECURSIVE PageLoopBreak(_, _, _, _)
PageLoopBreak(pdf, p, text, printed) ==
    IF p > Len(pdf.pages)
    THEN [raised |-> "none", text |-> text, printed |-> printed]
    ELSE IF pdf.pages[p] = BadPage
         THEN [raised |-> "none", text |-> text, printed |-> printed + 1]
         ELSE PageLoopBreak(pdf, p + 1, Append(text, <<p, pdf.pages[p]>>), printed)

\* The page loop with `pass` in the except branch.
RECURSIVE PageLoopSilent(_, _, _, _)
PageLoopSilent(pdf, p, text, printed) ==
    IF p > Len(pdf.pages)
    THEN [raised |-> "none", text |-> text, printed |-> printed]
    ELSE IF pdf.pages[p] = BadPage
         THEN PageLoopSilent(pdf, p + 1, text, printed)
         ELSE PageLoopSilent(pdf, p + 1, Append(text, <<p, pdf.pages[p]>>), printed)

\* The page loop: text.append(page.extract_text()), or print("parsing failed")
\* on binascii.Error.  Returns the list and the number of lines printed.
RECURSIVE PageLoop(_, _, _, _)
PageLoop(pdf, p, text, printed) ==
    IF p > Len(pdf.pages)
    THEN [raised |-> "none", text |-> text, printed |-> printed]
    ELSE IF pdf.pages[p] = BadPage
         THEN PageLoop(pdf, p + 1, text, printed + 1)
         ELSE PageLoop(pdf, p + 1, Append(text, <<p, pdf.pages[p]>>), printed)

\* PdfReader(...) under try/except PdfStreamError; any other exception of
\* the constructor leaves the function.
convert_to_text(pdf) ==
    IF pdf.open = "PdfStreamError"
    THEN [raised |-> "none", text |-> <<>>, printed |-> 0]
    ELSE IF pdf.open # "ok"
         THEN [raised |-> pdf.open, text |-> <<>>, printed |-> 0]
         ELSE PageLoop(pdf, 1, <<>>, 0)

\* split_text: the number of chunks of one page text.
split_text(page_text) == page_text[2]

RECURSIVE SumChunks(_)
SumChunks(texts) ==
    IF texts = <<>> THEN 0 ELSE split_text(Head(texts)) + SumChunks(Tail(texts))

\* ds.flat_map(convert_to_text).flat_map(split_text) on one document: the
\* rows of its block.
BlockOf(pdf, texts) == [i \in 1..SumChunks(texts) |-> <<pdf.id, i>>]

----------------------------------------------------------------------------
(* Embed *)

\* SentenceTransformer.encode on one text: a deterministic vector.
Vector(chunk) == 10 * chunk[1] + chunk[2]

\* encode losing the vector of the last text.
encode_short(text_batch) ==
    [i \in 1..(Len(text_batch) - 1) |-> Vector(text_batch[i])]

encode(text_batch) == [i \in 1..Len(text_batch) |-> Vector(text_batch[i])]

Zip(a, b) == [i \in 1..Min(Len(a), Len(b)) |-> <<a[i], b[i]>>]

\* __call__ returning as soon as the first text is encoded.
EmbedFirst(text_batch) ==
    Zip(SubSeq(text_batch, 1, 1), encode(SubSeq(text_batch, 1, 1)))

\* Embed.__call__
Embed(text_batch) == Zip(text_batch, encode(text_batch))

----------------------------------------------------------------------------

Init ==
    /\ batch_size \in 1..MaxBatch
    /\ pool_size \in 1..MaxPool
    /\ n_docs \in 0..MaxDocs
    /\ next_doc = 1
    /\ chunks = <<>>
    /\ calls = 0
    /\ last = [pdf |-> [id |-> 0, open |-> "ok", pages |-> <<>>],
               raised |-> "none", ret |-> <<>>]
    /\ log = 0
    /\ skipped_docs = 0
    /\ skipped_pages = 0
    /\ stream = <<>>
    /\ workers = {}
    /\ inflight = {}
    /\ dispatched = <<>>
    /\ outbuf = <<>>
    /\ text_and_embeddings = <<>>
    /\ vector_store = <<>>
    /\ faiss_index = <<>>
    /\ saves = 0
    /\ error = "none"
    /\ pc = "map_batches"

UpstreamExhausted == next_doc > n_docs

\* ActorPoolStrategy(min_size, max_size): the actors the pool starts with.
PoolActors == 1..pool_size

\* ds.map_batches(Embed, compute=ActorPoolStrategy(...)): the pool is created
\* when the driver starts consuming the dataset.
CreatePool ==
    /\ pc = "map_batches"
    /\ workers' = PoolActors
    /\ pc' = "iter_rows"
    /\ UNCHANGED <<batch_size, pool_size, n_docs, next_doc, chunks, calls, last, log,
                   skipped_docs, skipped_pages, stream, inflight, dispatched,
                   outbuf, text_and_embeddings, vector_store, faiss_index,
                   saves, error>>

\* One flat_map task of the pipeline: convert_to_text then split_text on
\* the next document.  An exception of the task ends the run.
Extract ==
    /\ pc = "iter_rows"
    /\ ~UpstreamExhausted
    /\ \E pdf \in Documents(next_doc) :
         LET r == convert_to_text(pdf)
             block == BlockOf(pdf, r.text)
         IN /\ Len(chunks) + Len(block) <= MaxRows
            /\ IF r.raised = "none"
               THEN /\ stream' = stream \o block
                    /\ chunks' = chunks \o block
                    /\ next_doc' = next_doc + 1
                    /\ UNCHANGED <<error, pc>>
               ELSE /\ error' = r.raised
                    /\ pc' = "aborted"
                    /\ UNCHANGED <<stream, chunks, next_doc>>
    /\ UNCHANGED <<batch_size, pool_size, n_docs, calls, last, log,
                   skipped_docs, skipped_pages, workers, inflight, dispatched,
                   outbuf, text_and_embeddings, vector_store, faiss_index, saves>>

Busy == {f.worker : f \in inflight}

\* An actor taken whether or not it is busy.
IdleAny(w) == w \in workers

\* An actor that can take a batch.
Idle(w) == w \in workers /\ w \notin Busy

\* A batch cut anywhere below batch_size.
BatchCutAny(n) == n \in 1..Min(batch_size, Len(stream))

\* Only full batches: a remainder waits for more rows.
BatchCutFull(n) == n = batch_size /\ n <= Len(stream)

\* The sizes map_batches may cut the next batch to: batch_size rows, or
\* fewer when the rows at hand end at a block boundary before that (Ray
\* Data batches within the blocks sent to one map task, so batch_size is
\* the maximum, reached exactly only where blocks allow it).
BatchCut(n) ==
    /\ n \in 1..Min(batch_size, Len(stream))
    /\ \/ n = batch_size
       \/ n = Len(stream)
       \/ (n < Len(stream) /\ stream[n][1] # stream[n + 1][1])

\* The pool hands the next batch to an actor that is free; the actors are
\* interchangeable, and the lowest-numbered free one stands for any.
Dispatch ==
    /\ pc = "iter_rows"
    /\ \E w \in workers, n \in 1..MaxBatch :
         /\ Idle(w)
         /\ \A v \in workers : v < w => ~Idle(v)
         /\ BatchCut(n)
         /\ inflight' = inflight \cup {[worker |-> w, batch |-> SubSeq(stream, 1, n)]}
         /\ dispatched' = Append(dispatched, SubSeq(stream, 1, n))
         /\ stream' = SubSeq(stream, n + 1, Len(stream))
    /\ UNCHANGED <<batch_size, pool_size, n_docs, next_doc, chunks, calls, last, log,
                   skipped_docs, skipped_pages, workers, outbuf,
                   text_and_embeddings, vector_store, faiss_index, saves,
                   error, pc>>

\* Embed.__call__ returns: the rows of the batch reach the output.
EmbedDone ==
    /\ pc = "iter_rows"
    /\ \E f \in inflight :
         /\ outbuf' = outbuf \o Embed(f.batch)
         /\ inflight' = inflight \ {f}
    /\ UNCHANGED <<batch_size, pool_size, n_docs, next_doc, chunks, calls, last, log,
                   skipped_docs, skipped_pages, stream, workers, dispatched,
                   text_and_embeddings, vector_store, faiss_index, saves,
                   error, pc>>

\* The failed batch is skipped and the run goes on.
EncodeSkipped == [error |-> "EncodeError", pc |-> "iter_rows"]

\* What an exception of transformer.encode does to the run.
EncodeRaised == [error |-> "EncodeError", pc |-> "aborted"]

\* transformer.encode raises (for example CUDA out of memory): the
\* exception reaches the driver through iter_rows and ends the script.
EmbedFail ==
    /\ pc = "iter_rows"
    /\ inflight # {}
    /\ error' = EncodeRaised.error
    /\ pc' = EncodeRaised.pc
    /\ UNCHANGED <<batch_size, pool_size, n_docs, next_doc, chunks, calls, last, log,
                   skipped_docs, skipped_pages, stream, workers, inflight,
                   dispatched, outbuf, text_and_embeddings, vector_store,
                   faiss_index, saves>>

\* One iteration of `for output in ds.iter_rows()`.
Collect ==
    /\ pc = "iter_rows"
    /\ outbuf # <<>>
    /\ text_and_embeddings' = Append(text_and_embeddings, Head(outbuf))
    /\ outbuf' = Tail(outbuf)
    /\ UNCHANGED <<batch_size, pool_size, n_docs, next_doc, chunks, calls, last, log,
                   skipped_docs, skipped_pages, stream, workers, inflight,
                   dispatched, vector_store, faiss_index, saves, error, pc>>

\* The loop ends as soon as no row is waiting.
DrainedEarly == outbuf = <<>>

\* The iterator of iter_rows is exhausted: nothing is left in any stage.
Drained ==
    /\ UpstreamExhausted
    /\ stream = <<>>
    /\ inflight = {}
    /\ outbuf = <<>>

IterRowsDone ==
    /\ pc = "iter_rows"
    /\ Drained
    /\ pc' = "from_embeddings"
    /\ UNCHANGED <<batch_size, pool_size, n_docs, next_doc, chunks, calls, last, log,
                   skipped_docs, skipped_pages, stream, workers, inflight,
                   dispatched, outbuf, text_and_embeddings, vector_store,
                   faiss_index, saves, error>>

\* vector_store = FAISS.from_embeddings(text_and_embeddings, ...)
FromEmbeddings ==
    /\ pc = "from_embeddings"
    /\ vector_store' = text_and_embeddings
    /\ pc' = "save_local"
    /\ UNCHANGED <<batch_size, pool_size, n_docs, next_doc, chunks, calls, last, log,
                   skipped_docs, skipped_pages, stream, workers, inflight,
                   dispatched, outbuf, text_and_embeddings, faiss_index,
                   saves, error>>

\* vector_store.save_local("faiss_index")
SaveLocal ==
    /\ pc = "save_local"
    /\ faiss_index' = vector_store
    /\ saves' = saves + 1
    /\ pc' = "done"
    /\ UNCHANGED <<batch_size, pool_size, n_docs, next_doc, chunks, calls, last, log,
                   skipped_docs, skipped_pages, stream, workers, inflight,
                   dispatched, outbuf, text_and_embeddings, vector_store,
                   error>>

Next ==
    \/ CreatePool
    \/ Extract
    \/ Dispatch
    \/ EmbedDone
    \/ EmbedFail
    \/ Collect
    \/ IterRowsDone
    \/ FromEmbeddings
    \/ SaveLocal

Spec == Init /\ [][Next]_vars

\* The Ray scheduler runs every task and actor call that is ready, and the
\* driver script runs its next statement; an exception is not owed.
FairSpec ==
    /\ Spec
    /\ WF_vars(CreatePool)
    /\ WF_vars(Extract)
    /\ WF_vars(Dispatch)
    /\ WF_vars(EmbedDone)
    /\ WF_vars(Collect)
    /\ WF_vars(IterRowsDone)
    /\ WF_vars(FromEmbeddings)
    /\ WF_vars(SaveLocal)

----------------------------------------------------------------------------
(* The extractor alone: flat_map(convert_to_text) over the documents of    *)
(* the directory, one call after the other, with what each call returned   *)
(* and printed.                                                            *)

\* The document is skipped by the except branch of convert_to_text.
Unreadable(pdf) == pdf.open = "PdfStreamError"

\* Pages of the document whose extract_text raises binascii.Error.
CountBad(pdf) == Cardinality({p \in DOMAIN pdf.pages : pdf.pages[p] = BadPage})

ConvertToText ==
    /\ calls < n_docs
    /\ last.raised = "none"
    /\ \E pdf \in Documents(calls + 1) :
         LET r == convert_to_text(pdf)
         IN /\ last' = [pdf |-> pdf, raised |-> r.raised, ret |-> r.text]
            /\ log' = log + r.printed
            /\ skipped_docs' = skipped_docs + (IF Unreadable(pdf) THEN 1 ELSE 0)
            /\ skipped_pages' = skipped_pages + CountBad(pdf)
    /\ calls' = calls + 1
    /\ UNCHANGED <<batch_size, pool_size, n_docs, next_doc, chunks, stream,
                   workers, inflight, dispatched, outbuf, text_and_embeddings,
                   vector_store, faiss_index, saves, error, pc>>

ExtractSpec == Init /\ [][ConvertToText]_vars

----------------------------------------------------------------------------
(* Properties *)

Range(f) == {f[i] : i \in DOMAIN f}

\* The driver has left the iter_rows loop without an exception.
Collected == pc \in {"from_embeddings", "save_local", "done"}

\* Chunks whose rows have left a worker.
Visible == {r[1] : r \in Range(outbuf) \cup Range(text_and_embeddings)}

\* The pages of a readable document that extract_text decodes, in page order.
DecodedPages(pdf) ==
    SelectSeq([p \in 1..Len(pdf.pages) |-> <<p, pdf.pages[p]>>],
              LAMBDA t : t[2] # BadPage)

\* The chunks after batch i in stream order.
After(i) == Concat(SubSeq(dispatched, i + 1, Len(dispatched))) \o stream

\* C1: once the driver has collected the rows without an exception, the
\* list handed to FAISS.from_embeddings holds one row per chunk the
\* splitter produced, every chunk exactly once, and nothing else.
C1_EveryChunkOnce ==
    Collected =>
        /\ Len(text_and_embeddings) = Len(chunks)
        /\ \A c \in Range(chunks) :
             Cardinality({i \in DOMAIN text_and_embeddings :
                             text_and_embeddings[i][1] = c}) = 1
        /\ \A r \in Range(text_and_embeddings) : r[1] \in Range(chunks)

C1_Witness ==
    /\ pc = "from_embeddings"
    /\ Len(chunks) = 3
    /\ batch_size = 2
    /\ Len(dispatched) >= 2

C3_PoolBound ==
    /\ Cardinality(inflight) <= pool_size
    /\ pc # "map_batches" => Cardinality(workers) = pool_size

C3_Witness ==
    /\ pool_size = 2
    /\ Cardinality(inflight) = 2
    /\ stream # <<>>

\* C4: when no encode call fails and the chunk stream is finite (the
\* upstream gets exhausted), every chunk is eventually embedded and the
\* driver reaches index construction with all of them, whatever the pool
\* size.
C4_AllEmbeddedEventually ==
    ([](error # "EncodeError") /\ <>UpstreamExhausted)
        => <>(Collected /\ Len(text_and_embeddings) = Len(chunks))

C4_Witness ==
    /\ pc = "from_embeddings"
    /\ pool_size = 1
    /\ Len(dispatched) >= 3
    /\ Len(text_and_embeddings) = Len(chunks)

\* C5: convert_to_text never raises: every call returns a list, and a
\* document that cannot be opened gives the empty list.
C5_NeverRaises ==
    /\ last.raised = "none"
    /\ last.pdf.open # "ok" => last.ret = <<>>

C7_BuildAfterDrain ==
    Collected =>
        /\ next_doc > n_docs
        /\ stream = <<>>
        /\ inflight = {}
        /\ outbuf = <<>>
        /\ Range(chunks) = {r[1] : r \in Range(text_and_embeddings)}

C7_Witness ==
    /\ pc = "save_local"
    /\ Len(dispatched) >= 2
    /\ vector_store = text_and_embeddings
    /\ Len(vector_store) >= 3

\* C8: a failed encode call ends the run, the run does not go on past it,
\* an aborted run has written no index, and the index is written at most
\* once and only with every row collected.
C8_FailureIsFatal ==
    /\ error # "none" => pc = "aborted"
    /\ pc = "aborted" => (saves = 0 /\ faiss_index = <<>>)
    /\ saves <= 1
    /\ saves = 1 =>
         /\ pc = "done"
         /\ faiss_index = text_and_embeddings
         /\ Len(faiss_index) = Len(chunks)
         /\ inflight = {} /\ stream = <<>> /\ outbuf = <<>>

C8_Witness ==
    /\ error = "EncodeError"
    /\ pc = "aborted"
    /\ text_and_embeddings # <<>>
    /\ inflight # {}
    /\ saves = 0

\* C9 as stated: every skip is logged, a skipped document as well as a
\* skipped page.
C9_EverySkipLogged == log = skipped_docs + skipped_pages

\* C9 amended: every skipped page is logged with one line; a skipped
\* unreadable document is left out of the output without a line.
C9_SkippedPagesLogged == log = skipped_pages

C9_Witness ==
    /\ skipped_docs >= 1
    /\ skipped_pages >= 2
    /\ log = skipped_pages

\* C10: no actor holds two batches, and the rows of a batch appear
\* downstream all together once its call has returned: none while the batch
\* is in flight, all of them afterwards.
C10_OneBatchPerWorker ==
    /\ \A f, g \in inflight : f.worker = g.worker => f = g
    /\ \A i \in DOMAIN dispatched :
         IF \E f \in inflight : f.batch = dispatched[i]
         THEN Range(dispatched[i]) \cap Visible = {}
         ELSE Range(dispatched[i]) \subseteq Visible

C10_Witness ==
    /\ pool_size = 2
    /\ \E f \in inflight : Len(f.batch) = 2
    /\ Visible # {}

====
